---- MODULE Spec2Model ----
(***************************************************************************)
(* Model of pkg/controller/tenant/internal_reconciler.go: the tenant       *)
(* reconciliation run (InternalReconciler.Run) against the 3scale remote   *)
(* account API (porta client) and the Kubernetes secret / status store.    *)
(*                                                                         *)
(* One action per collaborator call of a run.  The remote API and the      *)
(* Kubernetes store are the environment: every call may fail with a        *)
(* transport / persistence error; the remote provisions a new account with *)
(* some number of applications, an admin domain that may be malformed and  *)
(* an administrator that is pending or active (signup, fixed per           *)
(* behaviour); between runs the user may edit the spec, and the account of *)
(* a record may be deleted or its administrator put back to pending.       *)
(***************************************************************************)
EXTENDS Integers, Sequences, FiniteSets, TLC

\* ---------------------------------------------------------------- bounds
\* The remote control plane hands out account ids 1..MaxAccounts.
MaxAccounts == 2
\* An account is provisioned with 0..MaxApps applications.
MaxApps == 2
\* The user edits the spec of a record at most MaxEdits times.
MaxEdits == 2

\* ------------------------------------------------------------ value sets
Tenants == {1, 2}
OrgNames == {"Old", "New"}
Usernames == {"admin", "root"}
Emails == {"a@x", "b@x"}
Domains == {"", "t-admin.example"}
PasswordSecrets == {"absent", "nofield", "ok"}

Specs ==
    [OrganizationName : OrgNames, Username : Usernames, Email : Emails]

VARIABLES
    tenants,            \* the tenant records that are being reconciled
    spec,               \* tenantR.Spec of each record
    secretRef,          \* tenantR.Spec.TenantSecretRef of each record
    status,             \* tenantR.Status as persisted in the store
    pwdSecret,          \* the secret named by Spec.PasswordCredentialsRef
    secrets,            \* the secret store: ref -> secret
    accounts,           \* remote: account id -> account
    users,              \* remote: account id -> list of users
    applications,       \* remote: account id -> list of applications
    lastAccountID,      \* remote: the last account id handed out
    signup,             \* remote: what the signup of an account provisions
    pc,                 \* position of each record's run
    tenantR,            \* r.tenantR.Status, the run's in-memory status
    tenantDef,          \* the run's tenantDef (nil: ID = 0)
    adminUserDef,       \* the run's adminUserDef (nil: ID = 0)
    tenantProviderKey,  \* the run's tenantProviderKey
    result,             \* what Run returned: "" running, "ok", or the error
    calls,              \* the collaborator calls issued by the current run
    created,            \* history: account ids created by the record's runs
    settled,            \* history: last run returned nil, nothing changed since
    begun,              \* history: what the current run found when it began
    sent,               \* history: the params of the run's last UpdateUser call
    edits               \* number of spec edits so far

remoteVars == <<accounts, users, applications, lastAccountID>>
storeVars == <<status, secrets>>
inputVars == <<tenants, spec, secretRef, pwdSecret, signup, edits>>
localVars == <<tenantR, tenantDef, adminUserDef, tenantProviderKey>>
histVars == <<created, settled, begun, sent>>
vars == <<tenants, spec, secretRef, status, pwdSecret, secrets, accounts,
          users, applications, lastAccountID, signup, pc, tenantR, tenantDef,
          adminUserDef, tenantProviderKey, result, calls, created, settled,
          begun, sent, edits>>

\* ------------------------------------------------------------ data values
ZeroStatus == [TenantId |-> 0, AdminId |-> 0]
NilTenant == [ID |-> 0, OrgName |-> "", SupportEmail |-> "", AdminDomain |-> ""]
NilUser == [ID |-> 0, UserName |-> "", Email |-> "", State |-> "", Role |-> ""]
NoBegun == [status |-> ZeroStatus, accounts |-> {}, secret |-> FALSE]
NoParams == [username |-> "", email |-> ""]
\* findAdminUser's error
AdminNotFound == "Admin user not found and should be available"

\* ------------------------------------------------- the remote account API
\* Ids of the remote: users and accounts are numbered apart.
UserIdOf(a) == MaxAccounts + a
UserKeyOf(a, j) == a * (MaxApps + 1) + j

\* showAccount(id): the account with its id.
ShowTenant(id) ==
    [ID |-> id, OrgName |-> accounts[id].OrgName,
     SupportEmail |-> accounts[id].SupportEmail,
     AdminDomain |-> accounts[id].AdminDomain]

\* listUsers(accountId, filter role)
RECURSIVE FilterRole(_, _)
FilterRole(list, role) ==
    IF list = <<>> THEN <<>>
    ELSE IF Head(list).Role = role
         THEN <<Head(list)>> \o FilterRole(Tail(list), role)
         ELSE FilterRole(Tail(list), role)

ListUsers(a, role) == FilterRole(users[a], role)

\* readUser(accountId, userId): NilUser stands for the NotFound answer.
RECURSIVE UserById(_, _)
UserById(list, id) ==
    IF list = <<>> THEN NilUser
    ELSE IF Head(list).ID = id THEN Head(list) ELSE UserById(Tail(list), id)

ReadUser(a, id) == UserById(users[a], id)

\* URLFromDomain: "" stands for the error answer.
URLFromDomain(domain) ==
    IF domain = "" THEN "" ELSE "https://" \o domain

\* ------------------------------------------------- decisions of the code
tenantTriggerSync_Always(s, td) == TRUE

tenantTriggerSync_OrgOnly(s, td) == s.OrganizationName # td.OrgName

\* syncTenant's triggerSync
tenantTriggerSync(s, td) ==
    \/ s.OrganizationName # td.OrgName
    \/ s.Email # td.SupportEmail

\* syncAdminUser's triggerSync
adminTriggerSync(s, u) ==
    \/ s.Username # u.UserName
    \/ s.Email # u.Email

\* scan that looks at the email only
RECURSIVE scanAdminUser_EmailOnly(_, _)
scanAdminUser_EmailOnly(s, userList) ==
    IF userList = <<>> THEN NilUser
    ELSE IF Head(userList).Email = s.Email
         THEN Head(userList)
         ELSE scanAdminUser_EmailOnly(s, Tail(userList))

\* scan that looks at the username only
RECURSIVE scanAdminUser_UsernameOnly(_, _)
scanAdminUser_UsernameOnly(s, userList) ==
    IF userList = <<>> THEN NilUser
    ELSE IF Head(userList).UserName = s.Username
         THEN Head(userList)
         ELSE scanAdminUser_UsernameOnly(s, Tail(userList))

\* findAdminUser's scan of the user list; NilUser: no match.
RECURSIVE scanAdminUser(_, _)
scanAdminUser(s, userList) ==
    IF userList = <<>> THEN NilUser
    ELSE IF Head(userList).Email = s.Email /\ Head(userList).UserName = s.Username
         THEN Head(userList)
         ELSE scanAdminUser(s, Tail(userList))

getTenantStatus_SameId(td, u) == [TenantId |-> td.ID, AdminId |-> td.ID]

getTenantStatus(td, u) == [TenantId |-> td.ID, AdminId |-> u.ID]

statusDeepEqual_Never(cur, cand) == FALSE

\* updateTenantStatus's reflect.DeepEqual
statusDeepEqual(cur, cand) == cur = cand

unexpectedApplicationList_Empty(appList) == Len(appList) = 0

\* findTenantProviderKey's check of the application list
unexpectedApplicationList(appList) == Len(appList) # 1

tenantProviderKeySecretNN_Fixed(t) == "s1"

\* reconcileAccessTokenSecret's tenantProviderKeySecretNN
tenantProviderKeySecretNN(t) == secretRef[t]

\* ------------------------------------------------------- step bookkeeping
Goto(t, l) == pc' = [pc EXCEPT ![t] = l] /\ UNCHANGED result
Return_(t, r) ==
    /\ pc' = [pc EXCEPT ![t] = "done"]
    /\ result' = [result EXCEPT ![t] = r]
Call(t, op, res) ==
    calls' = [calls EXCEPT ![t] = Append(@, [op |-> op, res |-> res])]

\* ------------------------------------------------------------------- Init
Init ==
    /\ tenants = {1}
    /\ spec = [t \in Tenants |->
                [OrganizationName |-> "Old", Username |-> "admin", Email |-> "a@x"]]
    /\ secretRef = [t \in Tenants |-> IF t = 1 THEN "s1" ELSE "s2"]
    /\ status = [t \in Tenants |-> ZeroStatus]
    /\ pwdSecret \in [Tenants -> PasswordSecrets]
    /\ pwdSecret[2] = "ok"
    /\ secrets = <<>>
    /\ accounts = <<>>
    /\ users = <<>>
    /\ applications = <<>>
    /\ lastAccountID = 0
    /\ signup \in [Applications : 0..MaxApps, AdminDomain : Domains,
                    State : {"pending", "active"}]
    /\ pc = [t \in Tenants |-> "idle"]
    /\ tenantR = [t \in Tenants |-> ZeroStatus]
    /\ tenantDef = [t \in Tenants |-> NilTenant]
    /\ adminUserDef = [t \in Tenants |-> NilUser]
    /\ tenantProviderKey = [t \in Tenants |-> 0]
    /\ result = [t \in Tenants |-> ""]
    /\ calls = [t \in Tenants |-> <<>>]
    /\ created = [t \in Tenants |-> {}]
    /\ settled = [t \in Tenants |-> FALSE]
    /\ begun = [t \in Tenants |-> NoBegun]
    /\ sent = [t \in Tenants |-> NoParams]
    /\ edits = 0

\* ---------------------------------------------------------------- the run
\* NewInternalReconciler + entry of Run: the record is loaded from the store.
Run(t) ==
    /\ t \in tenants
    /\ pc[t] = "idle"
    /\ pc' = [pc EXCEPT ![t] = "fetchTenant"]
    /\ tenantR' = [tenantR EXCEPT ![t] = status[t]]
    /\ begun' = [begun EXCEPT ![t] =
                    [status |-> status[t], accounts |-> DOMAIN accounts,
                     secret |-> secretRef[t] \in DOMAIN secrets]]
    /\ UNCHANGED <<remoteVars, storeVars, inputVars, tenantDef, adminUserDef,
                   tenantProviderKey, result, calls, created, settled, sent>>

\* lookup that takes every error for an absent account
fetchTenant_AnyErrorAsNotFound(t) ==
    /\ pc[t] = "fetchTenant"
    /\ IF tenantR[t].TenantId = 0
       THEN /\ Goto(t, "getAdminPassword")
            /\ UNCHANGED <<calls, tenantDef>>
       ELSE \/ /\ tenantR[t].TenantId \in DOMAIN accounts
               /\ Call(t, "ShowTenant", "ok")
               /\ tenantDef' = [tenantDef EXCEPT ![t] = ShowTenant(tenantR[t].TenantId)]
               /\ Goto(t, "syncTenant")
            \/ /\ tenantR[t].TenantId \notin DOMAIN accounts
               /\ Call(t, "ShowTenant", "NotFound")
               /\ Goto(t, "getAdminPassword")
               /\ UNCHANGED tenantDef
            \/ /\ Call(t, "ShowTenant", "error")
               /\ Goto(t, "getAdminPassword")
               /\ UNCHANGED tenantDef
    /\ UNCHANGED <<remoteVars, storeVars, inputVars, tenantR, adminUserDef,
                   tenantProviderKey, histVars>>

fetchTenant(t) ==
    /\ pc[t] = "fetchTenant"
    /\ IF tenantR[t].TenantId = 0
       THEN /\ Goto(t, "getAdminPassword")
            /\ UNCHANGED <<calls, tenantDef>>
       ELSE \/ /\ tenantR[t].TenantId \in DOMAIN accounts
               /\ Call(t, "ShowTenant", "ok")
               /\ tenantDef' = [tenantDef EXCEPT ![t] = ShowTenant(tenantR[t].TenantId)]
               /\ Goto(t, "syncTenant")
            \/ /\ tenantR[t].TenantId \notin DOMAIN accounts
               /\ Call(t, "ShowTenant", "NotFound")
               /\ Goto(t, "getAdminPassword")
               /\ UNCHANGED tenantDef
            \/ /\ Call(t, "ShowTenant", "error")
               /\ Return_(t, "ShowTenant: error")
               /\ UNCHANGED tenantDef
    /\ UNCHANGED <<remoteVars, storeVars, inputVars, tenantR, adminUserDef,
                   tenantProviderKey, histVars>>

\* password lookup that does not look for the field
getAdminPassword_IgnoreMissingField(t) ==
    /\ pc[t] = "getAdminPassword"
    /\ \/ /\ pwdSecret[t] \in {"ok", "nofield"}
          /\ Call(t, "GetPasswordSecret", "ok")
          /\ Goto(t, "createTenant")
       \/ /\ pwdSecret[t] = "absent"
          /\ Call(t, "GetPasswordSecret", "NotFound")
          /\ Return_(t, "GetPasswordSecret: not found")
       \/ /\ Call(t, "GetPasswordSecret", "error")
          /\ Return_(t, "GetPasswordSecret: error")
    /\ UNCHANGED <<remoteVars, storeVars, inputVars, localVars, histVars>>

getAdminPassword(t) ==
    /\ pc[t] = "getAdminPassword"
    /\ \/ /\ pwdSecret[t] = "ok"
          /\ Call(t, "GetPasswordSecret", "ok")
          /\ Goto(t, "createTenant")
       \/ /\ pwdSecret[t] = "nofield"
          /\ Call(t, "GetPasswordSecret", "ok")
          /\ Return_(t, "Not found admin password secret attribute")
       \/ /\ pwdSecret[t] = "absent"
          /\ Call(t, "GetPasswordSecret", "NotFound")
          /\ Return_(t, "GetPasswordSecret: not found")
       \/ /\ Call(t, "GetPasswordSecret", "error")
          /\ Return_(t, "GetPasswordSecret: error")
    /\ UNCHANGED <<remoteVars, storeVars, inputVars, localVars, histVars>>

createTenant(t) ==
    /\ pc[t] = "createTenant"
    /\ \/ /\ lastAccountID < MaxAccounts
          /\ LET id == lastAccountID + 1
                 st == signup.State
                 n == signup.Applications
                 d == signup.AdminDomain
                 acc == [OrgName |-> spec[t].OrganizationName,
                         SupportEmail |-> spec[t].Email,
                         AdminDomain |-> d]
                 adm == [ID |-> UserIdOf(id), UserName |-> spec[t].Username,
                         Email |-> spec[t].Email, State |-> st, Role |-> "admin"]
             IN  /\ lastAccountID' = id
                 /\ accounts' = (id :> acc) @@ accounts
                 /\ users' = (id :> <<adm>>) @@ users
                 /\ applications' =
                      (id :> [j \in 1..n |-> [UserKey |-> UserKeyOf(id, j)]])
                        @@ applications
                 /\ tenantDef' = [tenantDef EXCEPT ![t] =
                      [ID |-> id, OrgName |-> acc.OrgName,
                       SupportEmail |-> acc.SupportEmail, AdminDomain |-> d]]
                 /\ created' = [created EXCEPT ![t] = @ \cup {id}]
          /\ Call(t, "CreateTenant", "ok")
          /\ Goto(t, "fetchAdminUser")
       \/ /\ Call(t, "CreateTenant", "error")
          /\ Return_(t, "CreateTenant: error")
          /\ UNCHANGED <<remoteVars, tenantDef, created>>
    /\ UNCHANGED <<storeVars, inputVars, tenantR, adminUserDef,
                   tenantProviderKey, settled, begun, sent>>

\* update whose error is dropped
syncTenant_IgnoreError(t) ==
    /\ pc[t] = "syncTenant"
    /\ IF tenantTriggerSync(spec[t], tenantDef[t])
       THEN /\ tenantDef' = [tenantDef EXCEPT
                    ![t].OrgName = spec[t].OrganizationName,
                    ![t].SupportEmail = spec[t].Email]
            /\ \/ /\ Call(t, "UpdateTenant", "ok")
                  /\ accounts' = [accounts EXCEPT
                        ![tenantR[t].TenantId].OrgName = spec[t].OrganizationName,
                        ![tenantR[t].TenantId].SupportEmail = spec[t].Email]
               \/ /\ Call(t, "UpdateTenant", "error")
                  /\ UNCHANGED accounts
       ELSE UNCHANGED <<calls, tenantDef, accounts>>
    /\ Goto(t, "fetchAdminUser")
    /\ UNCHANGED <<users, applications, lastAccountID, storeVars, inputVars,
                   tenantR, adminUserDef, tenantProviderKey, histVars>>

syncTenant(t) ==
    /\ pc[t] = "syncTenant"
    /\ IF tenantTriggerSync(spec[t], tenantDef[t])
       THEN /\ tenantDef' = [tenantDef EXCEPT
                    ![t].OrgName = spec[t].OrganizationName,
                    ![t].SupportEmail = spec[t].Email]
            /\ \/ /\ Call(t, "UpdateTenant", "ok")
                  /\ accounts' = [accounts EXCEPT
                        ![tenantR[t].TenantId].OrgName = spec[t].OrganizationName,
                        ![tenantR[t].TenantId].SupportEmail = spec[t].Email]
                  /\ Goto(t, "fetchAdminUser")
               \/ /\ Call(t, "UpdateTenant", "error")
                  /\ Return_(t, "UpdateTenant: error")
                  /\ UNCHANGED accounts
       ELSE /\ Goto(t, "fetchAdminUser")
            /\ UNCHANGED <<calls, tenantDef, accounts>>
    /\ UNCHANGED <<users, applications, lastAccountID, storeVars, inputVars,
                   tenantR, adminUserDef, tenantProviderKey, histVars>>

\* lookup that keeps the recorded admin id when the remote has no such user
fetchAdminUser_KeepRecorded(t) ==
    /\ pc[t] = "fetchAdminUser"
    /\ IF tenantR[t].AdminId = 0
       THEN \/ /\ Call(t, "ListUsers", "ok")
               /\ LET u == scanAdminUser(spec[t], ListUsers(tenantDef[t].ID, "admin"))
                  IN  IF u # NilUser
                      THEN /\ adminUserDef' = [adminUserDef EXCEPT ![t] = u]
                           /\ Goto(t, "activateAdminUser")
                      ELSE /\ Return_(t, AdminNotFound)
                           /\ UNCHANGED adminUserDef
            \/ /\ Call(t, "ListUsers", "error")
               /\ Return_(t, "ListUsers: error")
               /\ UNCHANGED adminUserDef
       ELSE LET u == ReadUser(tenantDef[t].ID, tenantR[t].AdminId)
            IN  \/ /\ u # NilUser
                   /\ Call(t, "ReadUser", "ok")
                   /\ adminUserDef' = [adminUserDef EXCEPT ![t] = u]
                   /\ Goto(t, "activateAdminUser")
                \/ /\ u = NilUser
                   /\ Call(t, "ReadUser", "NotFound")
                   /\ adminUserDef' = [adminUserDef EXCEPT ![t] =
                         [ID |-> tenantR[t].AdminId, UserName |-> spec[t].Username,
                          Email |-> spec[t].Email, State |-> "active",
                          Role |-> "admin"]]
                   /\ Goto(t, "activateAdminUser")
                \/ /\ Call(t, "ReadUser", "error")
                   /\ Return_(t, "ReadUser: error")
                   /\ UNCHANGED adminUserDef
    /\ UNCHANGED <<remoteVars, storeVars, inputVars, tenantR, tenantDef,
                   tenantProviderKey, histVars>>

\* fetchAdminUser, with findAdminUser when the status holds no admin id.
fetchAdminUser(t) ==
    /\ pc[t] = "fetchAdminUser"
    /\ IF tenantR[t].AdminId = 0
       THEN \/ /\ Call(t, "ListUsers", "ok")
               /\ LET u == scanAdminUser(spec[t], ListUsers(tenantDef[t].ID, "admin"))
                  IN  IF u # NilUser
                      THEN /\ adminUserDef' = [adminUserDef EXCEPT ![t] = u]
                           /\ Goto(t, "activateAdminUser")
                      ELSE /\ Return_(t, AdminNotFound)
                           /\ UNCHANGED adminUserDef
            \/ /\ Call(t, "ListUsers", "error")
               /\ Return_(t, "ListUsers: error")
               /\ UNCHANGED adminUserDef
       ELSE LET u == ReadUser(tenantDef[t].ID, tenantR[t].AdminId)
            IN  \/ /\ u # NilUser
                   /\ Call(t, "ReadUser", "ok")
                   /\ adminUserDef' = [adminUserDef EXCEPT ![t] = u]
                   /\ Goto(t, "activateAdminUser")
                \/ /\ u = NilUser
                   /\ Call(t, "ReadUser", "NotFound")
                   /\ Return_(t, "ReadUser: not found")
                   /\ UNCHANGED adminUserDef
                \/ /\ Call(t, "ReadUser", "error")
                   /\ Return_(t, "ReadUser: error")
                   /\ UNCHANGED adminUserDef
    /\ UNCHANGED <<remoteVars, storeVars, inputVars, tenantR, tenantDef,
                   tenantProviderKey, histVars>>

\* The remote's activateUser / updateUser on the user id of account a.
ActivateUser(a, id) ==
    [users EXCEPT ![a] =
        [i \in 1..Len(@) |-> IF @[i].ID = id THEN [@[i] EXCEPT !.State = "active"]
                             ELSE @[i]]]

UpdateUser(a, id, params) ==
    [users EXCEPT ![a] =
        [i \in 1..Len(@) |->
            IF @[i].ID = id
            THEN [@[i] EXCEPT !.UserName = params.username,
                              !.Email = params.email]
            ELSE @[i]]]

\* params that carry the changed field only
userParams_ChangedOnly(s, u) ==
    [username |-> IF s.Username # u.UserName THEN s.Username ELSE "",
     email |-> IF s.Email # u.Email THEN s.Email ELSE ""]

\* syncAdminUser's params of the UpdateUser call
userParams(s, u) == [username |-> s.Username, email |-> s.Email]

\* activation whose error is dropped
activateAdminUser_IgnoreError(t) ==
    /\ pc[t] = "activateAdminUser"
    /\ IF adminUserDef[t].State = "pending"
       THEN \/ /\ Call(t, "ActivateUser", "ok")
               /\ users' = ActivateUser(tenantDef[t].ID, adminUserDef[t].ID)
            \/ /\ Call(t, "ActivateUser", "error")
               /\ UNCHANGED users
       ELSE UNCHANGED <<calls, users>>
    /\ Goto(t, "syncAdminUser")
    /\ UNCHANGED <<accounts, applications, lastAccountID, storeVars, inputVars,
                   localVars, histVars>>

\* syncAdminUser, first half: activation of a pending administrator.
activateAdminUser(t) ==
    /\ pc[t] = "activateAdminUser"
    /\ IF adminUserDef[t].State = "pending"
       THEN \/ /\ Call(t, "ActivateUser", "ok")
               /\ users' = ActivateUser(tenantDef[t].ID, adminUserDef[t].ID)
               /\ Goto(t, "syncAdminUser")
            \/ /\ Call(t, "ActivateUser", "error")
               /\ Return_(t, "ActivateUser: error")
               /\ UNCHANGED users
       ELSE /\ Goto(t, "syncAdminUser")
            /\ UNCHANGED <<calls, users>>
    /\ UNCHANGED <<accounts, applications, lastAccountID, storeVars, inputVars,
                   localVars, histVars>>

\* syncAdminUser, second half: drift correction of username and email.
syncAdminUser(t) ==
    /\ pc[t] = "syncAdminUser"
    /\ IF adminTriggerSync(spec[t], adminUserDef[t])
       THEN /\ adminUserDef' = [adminUserDef EXCEPT
                    ![t].UserName = spec[t].Username,
                    ![t].Email = spec[t].Email]
            /\ sent' = [sent EXCEPT ![t] = userParams(spec[t], adminUserDef[t])]
            /\ \/ /\ Call(t, "UpdateUser", "ok")
                  /\ users' = UpdateUser(tenantDef[t].ID, adminUserDef[t].ID,
                                         userParams(spec[t], adminUserDef[t]))
                  /\ Goto(t, "findAccessTokenSecret")
               \/ /\ Call(t, "UpdateUser", "error")
                  /\ Return_(t, "UpdateUser: error")
                  /\ UNCHANGED users
       ELSE /\ Goto(t, "findAccessTokenSecret")
            /\ UNCHANGED <<calls, users, adminUserDef, sent>>
    /\ UNCHANGED <<accounts, applications, lastAccountID, storeVars, inputVars,
                   tenantR, tenantDef, tenantProviderKey, created, settled, begun>>

\* lookup whose answer is not looked at
findAccessTokenSecret_NoCheck(t) ==
    /\ pc[t] = "findAccessTokenSecret"
    /\ \/ /\ tenantProviderKeySecretNN(t) \in DOMAIN secrets
          /\ Call(t, "GetSecret", "ok")
          /\ Goto(t, "findTenantProviderKey")
       \/ /\ tenantProviderKeySecretNN(t) \notin DOMAIN secrets
          /\ Call(t, "GetSecret", "NotFound")
          /\ Goto(t, "findTenantProviderKey")
       \/ /\ Call(t, "GetSecret", "error")
          /\ Return_(t, "GetSecret: error")
    /\ UNCHANGED <<remoteVars, storeVars, inputVars, localVars, histVars>>

\* reconcileAccessTokenSecret's lookup and branch.
findAccessTokenSecret(t) ==
    /\ pc[t] = "findAccessTokenSecret"
    /\ \/ /\ tenantProviderKeySecretNN(t) \in DOMAIN secrets
          /\ Call(t, "GetSecret", "ok")
          /\ Goto(t, "updateTenantStatus")
       \/ /\ tenantProviderKeySecretNN(t) \notin DOMAIN secrets
          /\ Call(t, "GetSecret", "NotFound")
          /\ Goto(t, "findTenantProviderKey")
       \/ /\ Call(t, "GetSecret", "error")
          /\ Return_(t, "GetSecret: error")
    /\ UNCHANGED <<remoteVars, storeVars, inputVars, localVars, histVars>>

findTenantProviderKey(t) ==
    /\ pc[t] = "findTenantProviderKey"
    /\ \/ /\ Call(t, "ListApplications", "ok")
          /\ LET appList == applications[tenantDef[t].ID]
             IN  IF unexpectedApplicationList(appList)
                 THEN /\ Return_(t, "Unexpected application list")
                      /\ UNCHANGED tenantProviderKey
                 ELSE /\ tenantProviderKey' =
                            [tenantProviderKey EXCEPT ![t] = appList[1].UserKey]
                      /\ Goto(t, "createTenantProviderKeySecret")
       \/ /\ Call(t, "ListApplications", "error")
          /\ Return_(t, "ListApplications: error")
          /\ UNCHANGED tenantProviderKey
    /\ UNCHANGED <<remoteVars, storeVars, inputVars, tenantR, tenantDef,
                   adminUserDef, histVars>>

\* createTenantProviderKeySecret after the key is found: URL, then Create.
createTenantProviderKeySecret(t) ==
    /\ pc[t] = "createTenantProviderKeySecret"
    /\ LET adminURL == URLFromDomain(tenantDef[t].AdminDomain)
       IN  IF adminURL = ""
           THEN /\ Return_(t, "URLFromDomain: error")
                /\ UNCHANGED <<calls, secrets>>
           ELSE \/ /\ tenantProviderKeySecretNN(t) \notin DOMAIN secrets
                   /\ Call(t, "CreateSecret", "ok")
                   /\ secrets' = (tenantProviderKeySecretNN(t) :>
                         [providerKey |-> tenantProviderKey[t],
                          adminURL |-> adminURL, owner |-> t]) @@ secrets
                   /\ Goto(t, "updateTenantStatus")
                \/ /\ tenantProviderKeySecretNN(t) \in DOMAIN secrets
                   /\ Call(t, "CreateSecret", "AlreadyExists")
                   /\ Return_(t, "CreateSecret: already exists")
                   /\ UNCHANGED secrets
                \/ /\ Call(t, "CreateSecret", "error")
                   /\ Return_(t, "CreateSecret: error")
                   /\ UNCHANGED secrets
    /\ UNCHANGED <<remoteVars, status, inputVars, localVars, histVars>>

\* getTenantStatus + updateTenantStatus
updateTenantStatus(t) ==
    /\ pc[t] = "updateTenantStatus"
    /\ LET tenantStatus == getTenantStatus(tenantDef[t], adminUserDef[t])
       IN  IF statusDeepEqual(tenantR[t], tenantStatus)
           THEN /\ Return_(t, "ok")
                /\ UNCHANGED <<calls, tenantR, status>>
           ELSE /\ tenantR' = [tenantR EXCEPT ![t] = tenantStatus]
                /\ \/ /\ Call(t, "StatusUpdate", "ok")
                      /\ status' = [status EXCEPT ![t] = tenantStatus]
                      /\ Return_(t, "ok")
                   \/ /\ Call(t, "StatusUpdate", "error")
                      /\ Return_(t, "StatusUpdate: error")
                      /\ UNCHANGED status
    /\ UNCHANGED <<remoteVars, secrets, inputVars, tenantDef, adminUserDef,
                   tenantProviderKey, histVars>>

\* Run has returned to its caller; the reconciler object is dropped.
Return(t) ==
    /\ pc[t] = "done"
    /\ pc' = [pc EXCEPT ![t] = "idle"]
    /\ settled' = [settled EXCEPT ![t] = (result[t] = "ok")]
    /\ result' = [result EXCEPT ![t] = ""]
    /\ calls' = [calls EXCEPT ![t] = <<>>]
    /\ tenantR' = [tenantR EXCEPT ![t] = ZeroStatus]
    /\ tenantDef' = [tenantDef EXCEPT ![t] = NilTenant]
    /\ adminUserDef' = [adminUserDef EXCEPT ![t] = NilUser]
    /\ tenantProviderKey' = [tenantProviderKey EXCEPT ![t] = 0]
    /\ begun' = [begun EXCEPT ![t] = NoBegun]
    /\ sent' = [sent EXCEPT ![t] = NoParams]
    /\ UNCHANGED <<remoteVars, storeVars, inputVars, created>>

\* -------------------------------------------------------- the environment
\* The user edits one field of the spec of a record between two runs.
EditSpec(t) ==
    /\ t \in tenants
    /\ pc[t] = "idle"
    /\ edits < MaxEdits
    /\ edits' = edits + 1
    /\ \E s \in Specs :
          /\ Cardinality({f \in DOMAIN s : s[f] # spec[t][f]}) = 1
          /\ spec' = [spec EXCEPT ![t] = s]
    /\ settled' = [settled EXCEPT ![t] = FALSE]
    /\ UNCHANGED <<tenants, secretRef, pwdSecret, signup, remoteVars, storeVars, pc,
                   localVars, result, calls, created, begun, sent>>

RestrictTo(f, S) == [x \in S |-> f[x]]

\* The account of a record is deleted on the remote, out of band, between runs.
RemoteDeleteAccount(a) ==
    /\ a \in DOMAIN accounts
    /\ \E t \in tenants : status[t].TenantId = a
    /\ \A t \in Tenants : pc[t] = "idle"
    /\ accounts' = RestrictTo(accounts, DOMAIN accounts \ {a})
    /\ users' = RestrictTo(users, DOMAIN users \ {a})
    /\ applications' = RestrictTo(applications, DOMAIN applications \ {a})
    /\ settled' = [t \in Tenants |-> FALSE]
    /\ UNCHANGED <<lastAccountID, storeVars, inputVars, pc, localVars, result,
                   calls, created, begun, sent>>

\* The remote puts the users of the account of a record back to pending,
\* out of band, between runs.
RemoteUserPending(a) ==
    /\ a \in DOMAIN users
    /\ \E t \in tenants : status[t].TenantId = a
    /\ \A t \in Tenants : pc[t] = "idle"
    /\ \E i \in 1..Len(users[a]) : users[a][i].State # "pending"
    /\ users' = [users EXCEPT ![a] =
                    [i \in 1..Len(@) |-> [@[i] EXCEPT !.State = "pending"]]]
    /\ settled' = [t \in Tenants |-> FALSE]
    /\ UNCHANGED <<accounts, applications, lastAccountID, storeVars, inputVars,
                   pc, localVars, result, calls, created, begun, sent>>

\* The status of a record is edited in the store, out of band, between
\* runs: it keeps the account id and loses the admin id.
StatusAdminIdCleared(t) ==
    /\ t \in tenants
    /\ \A u \in Tenants : pc[u] = "idle"
    /\ edits < MaxEdits
    /\ edits' = edits + 1
    /\ status[t].AdminId # 0
    /\ status' = [status EXCEPT ![t].AdminId = 0]
    /\ settled' = [settled EXCEPT ![t] = FALSE]
    /\ UNCHANGED <<tenants, spec, secretRef, pwdSecret, signup, remoteVars,
                   secrets, pc, localVars, result, calls, created, begun, sent>>

\* The password secret of a record is deleted from the store, out of band,
\* once the account the record's status names is gone from the remote.
PasswordSecretRemoved(t) ==
    /\ t \in tenants
    /\ \A u \in Tenants : pc[u] = "idle"
    /\ status[t].TenantId # 0
    /\ status[t].TenantId \notin DOMAIN accounts
    /\ pwdSecret[t] = "ok"
    /\ pwdSecret' = [pwdSecret EXCEPT ![t] = "absent"]
    /\ settled' = [settled EXCEPT ![t] = FALSE]
    /\ UNCHANGED <<tenants, spec, secretRef, signup, edits, remoteVars,
                   storeVars, pc, localVars, result, calls, created, begun, sent>>

Next ==
    \/ \E t \in Tenants :
        \/ Run(t)
        \/ fetchTenant(t)
        \/ getAdminPassword(t)
        \/ createTenant(t)
        \/ syncTenant(t)
        \/ fetchAdminUser(t)
        \/ activateAdminUser(t)
        \/ syncAdminUser(t)
        \/ findAccessTokenSecret(t)
        \/ findTenantProviderKey(t)
        \/ createTenantProviderKeySecret(t)
        \/ updateTenantStatus(t)
        \/ Return(t)
        \/ EditSpec(t)
        \/ StatusAdminIdCleared(t)
        \/ PasswordSecretRemoved(t)
    \/ \E a \in 1..MaxAccounts : RemoteDeleteAccount(a)
    \/ \E a \in 1..MaxAccounts : RemoteUserPending(a)

Spec == Init /\ [][Next]_vars

\* ------------------------------------------- two records, one run of each
\* Two fresh records; the second one's spec and credential-secret reference
\* are free, the remote and the store are empty.
InitPair ==
    /\ tenants = Tenants
    /\ spec \in [Tenants -> Specs]
    /\ spec[1] = [OrganizationName |-> "Old", Username |-> "admin", Email |-> "a@x"]
    /\ secretRef \in [Tenants -> {"s1", "s2"}]
    /\ secretRef[1] = "s1"
    /\ status = [t \in Tenants |-> ZeroStatus]
    /\ pwdSecret = [t \in Tenants |-> "ok"]
    /\ secrets = <<>>
    /\ accounts = <<>>
    /\ users = <<>>
    /\ applications = <<>>
    /\ lastAccountID = 0
    /\ signup \in [Applications : 0..MaxApps, AdminDomain : Domains,
                    State : {"pending", "active"}]
    /\ pc = [t \in Tenants |-> "idle"]
    /\ tenantR = [t \in Tenants |-> ZeroStatus]
    /\ tenantDef = [t \in Tenants |-> NilTenant]
    /\ adminUserDef = [t \in Tenants |-> NilUser]
    /\ tenantProviderKey = [t \in Tenants |-> 0]
    /\ result = [t \in Tenants |-> ""]
    /\ calls = [t \in Tenants |-> <<>>]
    /\ created = [t \in Tenants |-> {}]
    /\ settled = [t \in Tenants |-> FALSE]
    /\ begun = [t \in Tenants |-> NoBegun]
    /\ sent = [t \in Tenants |-> NoParams]
    /\ edits = 0

\* The steps of the two runs, interleaved call by call.
NextPair ==
    \E t \in Tenants :
        \/ Run(t)
        \/ fetchTenant(t)
        \/ getAdminPassword(t)
        \/ createTenant(t)
        \/ fetchAdminUser(t)
        \/ activateAdminUser(t)
        \/ syncAdminUser(t)
        \/ findAccessTokenSecret(t)
        \/ findTenantProviderKey(t)
        \/ createTenantProviderKeySecret(t)
        \/ updateTenantStatus(t)

SpecPair == InitPair /\ [][NextPair]_vars

\* ------------------------------------------------ reading the call record
Issued(t, op) == \E i \in 1..Len(calls[t]) : calls[t][i].op = op
Count(t, op) == Cardinality({i \in 1..Len(calls[t]) : calls[t][i].op = op})
Answered(t, op, res) ==
    \E i \in 1..Len(calls[t]) : calls[t][i].op = op /\ calls[t][i].res = res
NoCallFailed(t) == \A i \in 1..Len(calls[t]) : calls[t][i].res # "error"
WriteOps == {"CreateTenant", "UpdateTenant", "ActivateUser", "UpdateUser",
             "CreateSecret", "StatusUpdate"}
NoWrite(t) == \A i \in 1..Len(calls[t]) : calls[t][i].op \notin WriteOps

\* The remote provisioned account a as the data model says: one
\* application, a well-formed admin domain.
Provisioned(a) ==
    /\ Len(applications[a]) = 1
    /\ accounts[a].AdminDomain # ""

\* ----------------------------------------------------------------- claims

\* C1: as long as no account created for a record was deleted out of band,
\* the runs of that record have created at most one remote account.
C1_CreatedOnce ==
    \A t \in tenants :
        created[t] \subseteq DOMAIN accounts => Cardinality(created[t]) <= 1

\* C2: a run that follows a successful run with no external change in
\* between issues no write call and changes neither the remote accounts,
\* users and applications, nor the secret store, nor the status.
C2_Idempotent ==
    [][\A t \in tenants :
          (settled[t] /\ pc[t] # "idle") =>
              /\ UNCHANGED <<accounts, users, applications, lastAccountID,
                             secrets, status>>
              /\ NoWrite(t)']_vars

C2_Witness ==
    \E t \in tenants :
        /\ settled[t] /\ pc[t] = "done" /\ result[t] = "ok"
        /\ Issued(t, "ShowTenant") /\ Issued(t, "ReadUser") /\ Issued(t, "GetSecret")

\* C3: a run that begins with no remote account, no credential secret and
\* status {0,0}, with a valid password secret, no failing call and an account
\* provisioned with one application and a well-formed domain, returns nil
\* having created exactly one account that carries the spec's organization
\* name, username and email, with its administrator not pending, the secret
\* holding the account's application key and admin URL, and the persisted
\* status holding the nonzero ids of that account and administrator.
C3_CreationConverges ==
    \A t \in tenants :
        ( /\ pc[t] = "done"
          /\ begun[t].accounts = {} /\ ~begun[t].secret
          /\ begun[t].status = ZeroStatus
          /\ pwdSecret[t] = "ok"
          /\ NoCallFailed(t)
          /\ \A a \in DOMAIN accounts : Provisioned(a) )
        =>
        /\ result[t] = "ok"
        /\ Count(t, "CreateTenant") = 1
        /\ Cardinality(DOMAIN accounts) = 1
        /\ \A a \in DOMAIN accounts :
             /\ a # 0
             /\ accounts[a].OrgName = spec[t].OrganizationName
             /\ Len(users[a]) = 1
             /\ users[a][1].UserName = spec[t].Username
             /\ users[a][1].Email = spec[t].Email
             /\ users[a][1].Role = "admin"
             /\ users[a][1].State # "pending"
             /\ users[a][1].ID # 0
             /\ Count(t, "CreateSecret") = 1
             /\ secretRef[t] \in DOMAIN secrets
             /\ secrets[secretRef[t]].providerKey = applications[a][1].UserKey
             /\ secrets[secretRef[t]].adminURL = "https://" \o accounts[a].AdminDomain
             /\ status[t] = [TenantId |-> a, AdminId |-> users[a][1].ID]

C3_Witness ==
    \E t \in tenants :
        /\ pc[t] = "done" /\ result[t] = "ok"
        /\ begun[t].accounts = {} /\ ~begun[t].secret
        /\ begun[t].status = ZeroStatus
        /\ Issued(t, "CreateTenant") /\ Issued(t, "ActivateUser")
        /\ Issued(t, "CreateSecret") /\ Issued(t, "StatusUpdate")

\* C4: a run whose ShowTenant answered NotFound for the recorded account id
\* (no call failing, password secret valid, account provisioned as expected)
\* returns nil, and the persisted status names the account it created.
C4_StaleIdRecovery ==
    \A t \in tenants :
        ( /\ pc[t] = "done"
          /\ Answered(t, "ShowTenant", "NotFound")
          /\ pwdSecret[t] = "ok"
          /\ NoCallFailed(t)
          /\ \A a \in DOMAIN accounts : Provisioned(a) )
        =>
        /\ result[t] = "ok"
        /\ status[t].TenantId \in DOMAIN accounts \ begun[t].accounts

\* C5: a pending administrator is activated before its profile is updated:
\* an UpdateUser call on an administrator found pending comes after an
\* ActivateUser call that succeeded, and no UpdateUser call is issued in a
\* run whose ActivateUser call failed.
C5_ActivateBeforeUpdate ==
    \A t \in tenants :
        /\ \A i \in 1..Len(calls[t]) :
             (calls[t][i].op = "UpdateUser" /\ adminUserDef[t].State = "pending")
             => \E j \in 1..(i - 1) :
                    calls[t][j] = [op |-> "ActivateUser", res |-> "ok"]
        /\ Answered(t, "ActivateUser", "error") => ~Issued(t, "UpdateUser")
        /\ \A i, j \in 1..Len(calls[t]) :
             (calls[t][i].op = "ActivateUser" /\ calls[t][j].op = "UpdateUser")
             => i < j

C5_Witness ==
    \E t \in tenants :
        /\ adminUserDef[t].State = "pending"
        /\ Answered(t, "ActivateUser", "ok")
        /\ Issued(t, "UpdateUser")

\* C6: at syncTenant, reached only when the recorded account exists, if the
\* remote organization name or support email differs from the spec exactly
\* one UpdateTenant call is issued, and when it succeeds the account has the
\* spec's organization name and support email and nothing else of the remote
\* changed; if both match no UpdateTenant call is issued.  No other step
\* issues UpdateTenant, and such a run issues no CreateTenant.
C6_DriftCorrection ==
    [][\A t \in tenants :
          /\ pc[t] = "syncTenant" =>
               LET a == status[t].TenantId
                   drift == \/ accounts[a].OrgName # spec[t].OrganizationName
                            \/ accounts[a].SupportEmail # spec[t].Email
               IN  IF drift
                   THEN /\ Count(t, "UpdateTenant")' = 1
                        /\ Answered(t, "UpdateTenant", "ok")' =>
                             accounts' = [accounts EXCEPT ![a] =
                                 [OrgName |-> spec[t].OrganizationName,
                                  SupportEmail |-> spec[t].Email,
                                  AdminDomain |-> accounts[a].AdminDomain]]
                        /\ UNCHANGED <<users, applications, lastAccountID>>
                   ELSE /\ ~Issued(t, "UpdateTenant")'
                        /\ UNCHANGED remoteVars
          /\ pc[t] # "syncTenant" =>
               Count(t, "UpdateTenant")' <= Count(t, "UpdateTenant")
          /\ (Answered(t, "ShowTenant", "ok") =>
                 Count(t, "UpdateTenant") <= 1 /\ ~Issued(t, "CreateTenant"))'
      ]_vars

C6_Witness ==
    \E t \in tenants :
        /\ Answered(t, "UpdateTenant", "ok")
        /\ pc[t] = "fetchAdminUser"
        /\ accounts[status[t].TenantId].OrgName = "New"

\* C7: when the secret lookup answered NotFound and the account's
\* application list has a length other than one, the run returns an error,
\* issues no secret Create and no status update, and leaves the secret
\* absent and the persisted status as it was.
C7_ApplicationCount ==
    \A t \in tenants :
        ( /\ Answered(t, "GetSecret", "NotFound")
          /\ Len(applications[tenantDef[t].ID]) # 1 )
        =>
        /\ ~Issued(t, "CreateSecret")
        /\ ~Issued(t, "StatusUpdate")
        /\ secretRef[t] \notin DOMAIN secrets
        /\ status[t] = begun[t].status
        /\ pc[t] \in {"findTenantProviderKey", "done"}
        /\ pc[t] = "done" => result[t] \notin {"", "ok"}

C7_Witness ==
    \E t \in tenants :
        /\ pc[t] = "done"
        /\ Answered(t, "ListApplications", "ok")
        /\ Len(applications[tenantDef[t].ID]) = 2
        /\ result[t] = "Unexpected application list"

\* C8: at updateTenantStatus, if the candidate {account id, admin id} equals
\* the record's status no update is issued and Run returns nil; otherwise
\* exactly one update is issued, and it persists the candidate unless it
\* fails.  No other step of a run issues a status update or changes the
\* status.
C8_StatusNoOp ==
    [][\A t \in tenants :
          /\ pc[t] = "updateTenantStatus" =>
               LET cand == [TenantId |-> tenantDef[t].ID,
                            AdminId |-> adminUserDef[t].ID]
               IN  IF cand = status[t]
                   THEN /\ ~Issued(t, "StatusUpdate")'
                        /\ result'[t] = "ok"
                        /\ status' = status
                   ELSE /\ Count(t, "StatusUpdate")' = 1
                        /\ Answered(t, "StatusUpdate", "ok")' =>
                             status'[t] = cand /\ result'[t] = "ok"
                        /\ Answered(t, "StatusUpdate", "error")' =>
                             status' = status /\ result'[t] # "ok"
          /\ (pc[t] # "updateTenantStatus" /\ (pc[t] # "idle" \/ pc'[t] # "idle")) =>
               /\ status'[t] = status[t]
               /\ ~Issued(t, "StatusUpdate")' \/ calls'[t] = calls[t]
      ]_vars

C8_Witness ==
    \E t \in tenants :
        /\ pc[t] = "done" /\ result[t] = "ok"
        /\ ~Issued(t, "StatusUpdate")
        /\ status[t] = [TenantId |-> tenantDef[t].ID, AdminId |-> adminUserDef[t].ID]
        /\ Issued(t, "UpdateUser")

\* C9: a secret that exists is never changed or removed; a secret Create is
\* issued only after the lookup of the same run answered NotFound; a run that
\* began with the secret present issues neither ListApplications nor a
\* secret Create.
C9_SecretWriteOnce ==
    [][\A t \in tenants :
          /\ \A r \in DOMAIN secrets :
               r \in DOMAIN secrets' /\ secrets'[r] = secrets[r]
          /\ (Issued(t, "CreateSecret") => Answered(t, "GetSecret", "NotFound"))'
          /\ (begun[t].secret =>
                 ~Issued(t, "ListApplications") /\ ~Issued(t, "CreateSecret"))'
      ]_vars

\* The secret holds the key of another account than the one the run settled on.
C9_Witness ==
    \E t \in tenants :
        /\ pc[t] = "done" /\ result[t] = "ok"
        /\ begun[t].secret
        /\ Len(applications[tenantDef[t].ID]) = 1
        /\ secrets[secretRef[t]].providerKey # applications[tenantDef[t].ID][1].UserKey

\* C10: no run returns an error on a NotFound answer of ShowTenant,
\* ReadUser or the credential-secret lookup.
C10_NotFoundRecoverable ==
    \A t \in tenants :
        (pc[t] = "done" /\ result[t] # "ok" /\ calls[t] # <<>>) =>
            LET last == calls[t][Len(calls[t])]
            IN  ~(last.res = "NotFound"
                  /\ last.op \in {"ShowTenant", "ReadUser", "GetSecret"})

\* ------------------------------------------------- stages of the pipeline
\* The stage of Run an operation belongs to: 1 reconcileTenant,
\* 2 reconcileAdminUser, 3 reconcileAccessTokenSecret, 4 updateTenantStatus.
StageOf(op) ==
    IF op \in {"ShowTenant", "GetPasswordSecret", "CreateTenant", "UpdateTenant"}
    THEN 1
    ELSE IF op \in {"ListUsers", "ReadUser", "ActivateUser", "UpdateUser"}
    THEN 2
    ELSE IF op \in {"GetSecret", "ListApplications", "CreateSecret"}
    THEN 3
    ELSE 4

\* A call whose answer the code returns as the error of Run.
FatalCall(c) ==
    \/ c.res \in {"error", "AlreadyExists"}
    \/ c.res = "NotFound" /\ c.op \in {"GetPasswordSecret", "ReadUser"}

\* C11: the calls of a run come in the order of the stages account,
\* administrator, secret, status; a call whose answer is fatal is the last
\* call of its run and Run returns an error; a run that returned an error
\* issued no call of a stage after the one it failed in and left the
\* persisted status as it was.
C11_ShortCircuit ==
    \A t \in tenants :
        /\ \A i, j \in 1..Len(calls[t]) :
             i < j => StageOf(calls[t][i].op) <= StageOf(calls[t][j].op)
        /\ \A i \in 1..Len(calls[t]) :
             FatalCall(calls[t][i]) =>
                 /\ i = Len(calls[t])
                 /\ pc[t] = "done"
                 /\ result[t] \notin {"", "ok"}
        /\ (pc[t] = "done" /\ result[t] # "ok") =>
             /\ status[t] = begun[t].status
             /\ ~Answered(t, "StatusUpdate", "ok")
             /\ result[t] = AdminNotFound =>
                  \A i \in 1..Len(calls[t]) : StageOf(calls[t][i].op) <= 2
             /\ result[t] \in {"Unexpected application list", "URLFromDomain: error"} =>
                  \A i \in 1..Len(calls[t]) : StageOf(calls[t][i].op) <= 3
             /\ result[t] \in {"Not found admin password secret attribute"} =>
                  \A i \in 1..Len(calls[t]) : StageOf(calls[t][i].op) <= 1

\* An account-stage failure after the account was found.
C11_Witness ==
    \E t \in tenants :
        /\ pc[t] = "done"
        /\ Answered(t, "ShowTenant", "ok")
        /\ Answered(t, "UpdateTenant", "error")
        /\ result[t] = "UpdateTenant: error"

\* C12: a run that starts from a recorded admin id and in which no call
\* fails, with a valid password secret and accounts provisioned as expected,
\* either returns nil or leaves the next run something else to start from (a
\* changed status or a secret that was absent): a run that returns an error
\* and leaves both as they were is repeated by every later run.
C12_EventualConvergence ==
    \A t \in tenants :
        ( /\ pc[t] = "done"
          /\ begun[t].status.AdminId # 0
          /\ pwdSecret[t] = "ok"
          /\ NoCallFailed(t)
          /\ \A a \in DOMAIN accounts : Provisioned(a) )
        =>
        \/ result[t] = "ok"
        \/ status[t] # begun[t].status
        \/ (secretRef[t] \in DOMAIN secrets) # begun[t].secret

\* The secret the run of record t writes for account a.
SecretOf(a, t) ==
    [providerKey |-> UserKeyOf(a, 1),
     adminURL |-> URLFromDomain(signup.AdminDomain), owner |-> t]

\* What a run in which no call fails returns, the remote provisioning every
\* account as signup says.
SequentialResult ==
    IF signup.Applications # 1 THEN "Unexpected application list"
    ELSE IF signup.AdminDomain = "" THEN "URLFromDomain: error"
    ELSE "ok"

\* The state after one run of each record, one after the other, from the
\* empty remote and store, no call failing: record first holds the account
\* the remote numbered 1, and record writer ran its secret stage first (the
\* remote numbers the accounts in the order of their creation, so the ids
\* are compared up to that order).
SequentialOutcome(first, writer) ==
    LET second == CHOOSE t \in Tenants : t # first
        accountOf(t) == IF t = first THEN 1 ELSE 2
    IN  /\ DOMAIN accounts = {1, 2}
        /\ \A t \in {first, second} :
             LET a == accountOf(t)
             IN  /\ accounts[a] = [OrgName |-> spec[t].OrganizationName,
                                   SupportEmail |-> spec[t].Email,
                                   AdminDomain |-> signup.AdminDomain]
                 /\ users[a] = <<[ID |-> UserIdOf(a),
                                  UserName |-> spec[t].Username,
                                  Email |-> spec[t].Email, State |-> "active",
                                  Role |-> "admin"]>>
                 /\ result[t] = SequentialResult
                 /\ status[t] = IF SequentialResult = "ok"
                                THEN [TenantId |-> a, AdminId |-> UserIdOf(a)]
                                ELSE ZeroStatus
        /\ secrets = IF SequentialResult # "ok" THEN <<>>
                     ELSE IF secretRef[first] = secretRef[second]
                     THEN secretRef[writer] :> SecretOf(accountOf(writer), writer)
                     ELSE (secretRef[first] :> SecretOf(1, first))
                            @@ (secretRef[second] :> SecretOf(2, second))

BothReturned ==
    /\ tenants = {1, 2}
    /\ \A t \in tenants : pc[t] = "done" /\ NoCallFailed(t)

\* C13 as stated: for two fresh records with any spec values, when both runs
\* have returned and no call failed, the accounts, administrators, secrets
\* and statuses are those of running the two runs one after the other in
\* some order.
C13_AnySpecValues ==
    BothReturned => \E f, w \in Tenants : SequentialOutcome(f, w)

\* C13, amended: for two fresh records whose credential-secret references
\* differ, when both runs have returned and no call failed, the accounts,
\* administrators, secrets and statuses are those of running the two runs one
\* after the other in some order.
C13_NoCoordination ==
    (BothReturned /\ secretRef[1] # secretRef[2])
        => \E f \in Tenants : SequentialOutcome(f, f)

\* Both runs succeeded, the second record's account created first.
C13_Witness ==
    /\ BothReturned
    /\ secretRef[1] # secretRef[2]
    /\ result[1] = "ok" /\ result[2] = "ok"
    /\ status[2].TenantId = 1 /\ status[1].TenantId = 2
    /\ spec[1] # spec[2]

\* C14: CreateTenant is issued only in a run that began with status account
\* id zero or whose ShowTenant answered NotFound, the account being absent;
\* the secret Create only after the secret lookup answered NotFound; a run
\* whose ShowTenant or secret lookup failed with another error has returned
\* an error without the create call.
C14_CreateAfterAbsence ==
    \A t \in tenants :
        /\ Issued(t, "CreateTenant") =>
             \/ begun[t].status.TenantId = 0
             \/ /\ Answered(t, "ShowTenant", "NotFound")
                /\ begun[t].status.TenantId \notin begun[t].accounts
        /\ Issued(t, "CreateSecret") => Answered(t, "GetSecret", "NotFound")
        /\ Answered(t, "ShowTenant", "error") =>
             /\ pc[t] = "done" /\ result[t] \notin {"", "ok"}
             /\ ~Issued(t, "CreateTenant")
        /\ Answered(t, "GetSecret", "error") =>
             /\ pc[t] = "done" /\ result[t] \notin {"", "ok"}
             /\ ~Issued(t, "CreateSecret")

\* An account created after NotFound, then a failing secret lookup.
C14_Witness ==
    \E t \in tenants :
        /\ pc[t] = "done"
        /\ Answered(t, "ShowTenant", "NotFound")
        /\ Issued(t, "CreateTenant")
        /\ Answered(t, "GetSecret", "error")

\* C15 as stated: a run that comes to create the account while the password
\* secret is missing or lacks the field returns an error having made no
\* remote call at all, the remote, the secret store and the status unchanged.
C15_NoRemoteCall ==
    [][\A t \in tenants :
          (pc[t] = "getAdminPassword" /\ pwdSecret[t] # "ok" /\ pc'[t] # pc[t]) =>
              /\ pc'[t] = "done" /\ result'[t] \notin {"", "ok"}
              /\ UNCHANGED <<remoteVars, storeVars>>
              /\ \A i \in 1..Len(calls'[t]) : calls'[t][i].op = "GetPasswordSecret"
      ]_vars

\* C15, amended: a run that comes to create the account while the password
\* secret is missing or lacks the field returns an error having issued no
\* CreateTenant and no call other than the ShowTenant lookup of a recorded
\* id and the password lookup, the remote, the secret store and the status
\* unchanged.
C15_PasswordPrecondition ==
    [][\A t \in tenants :
          (pc[t] = "getAdminPassword" /\ pwdSecret[t] # "ok" /\ pc'[t] # pc[t]) =>
              /\ pc'[t] = "done" /\ result'[t] \notin {"", "ok"}
              /\ UNCHANGED <<remoteVars, storeVars>>
              /\ \A i \in 1..Len(calls'[t]) :
                   calls'[t][i].op \in {"ShowTenant", "GetPasswordSecret"}
              /\ DOMAIN accounts = begun[t].accounts
              /\ status[t] = begun[t].status
      ]_vars

\* The recorded account is gone and the password secret is missing.
C15_Witness ==
    \E t \in tenants :
        /\ pc[t] = "done"
        /\ pwdSecret[t] = "absent"
        /\ Answered(t, "ShowTenant", "NotFound")
        /\ Answered(t, "GetPasswordSecret", "NotFound")
        /\ result[t] = "GetPasswordSecret: not found"

\* findAdminUser's filter and test on one user
Matches(t, u) ==
    u.Role = "admin" /\ u.UserName = spec[t].Username /\ u.Email = spec[t].Email

C17_SyncIff ==
    [][\A t \in tenants :
          /\ pc[t] = "activateAdminUser" =>
               (Issued(t, "ActivateUser")' <=> adminUserDef[t].State = "pending")
          /\ (pc[t] \in {"activateAdminUser", "syncAdminUser"}
                /\ pc'[t] \notin {"activateAdminUser", "syncAdminUser"}) =>
               (Issued(t, "UpdateUser")'
                  <=> adminTriggerSync(spec[t], adminUserDef[t]))
      ]_vars

\* C17, amended: ActivateUser is issued iff the resolved administrator is
\* pending; unless that activation failed, UpdateUser is issued, once, iff
\* the administrator's username or email differs from the spec's, and the
\* call carries both the spec's username and the spec's email; no other step
\* issues either call.
C17_AdminSync ==
    [][\A t \in tenants :
          /\ pc[t] = "activateAdminUser" =>
               /\ Issued(t, "ActivateUser")' <=> adminUserDef[t].State = "pending"
               /\ ~Issued(t, "UpdateUser")'
          /\ pc[t] = "syncAdminUser" =>
               /\ Issued(t, "UpdateUser")'
                    <=> adminTriggerSync(spec[t], adminUserDef[t])
               /\ Issued(t, "UpdateUser")' =>
                    /\ Count(t, "UpdateUser")' = 1
                    /\ sent'[t] = [username |-> spec[t].Username,
                                   email |-> spec[t].Email]
               /\ Count(t, "ActivateUser")' = Count(t, "ActivateUser")
          /\ pc[t] \notin {"activateAdminUser", "syncAdminUser"} =>
               /\ Count(t, "ActivateUser")' <= Count(t, "ActivateUser")
               /\ Count(t, "UpdateUser")' <= Count(t, "UpdateUser")
      ]_vars

\* Only the email differed, the call failed, and it carried the username too.
C17_Witness ==
    \E t \in tenants :
        /\ pc[t] = "done"
        /\ Answered(t, "UpdateUser", "error")
        /\ users[tenantDef[t].ID][1].UserName = spec[t].Username
        /\ users[tenantDef[t].ID][1].Email # spec[t].Email
        /\ sent[t] = [username |-> spec[t].Username, email |-> spec[t].Email]

\* C18: when a run has returned nil, the persisted status's account id is
\* the id of a remote account, its admin id is the id of a user of that
\* account, and of no other account.
C18_StatusConsistency ==
    \A t \in tenants :
        (pc[t] = "done" /\ result[t] = "ok") =>
            /\ status[t].TenantId \in DOMAIN accounts
            /\ status[t].AdminId # 0
            /\ \E i \in 1..Len(users[status[t].TenantId]) :
                 users[status[t].TenantId][i].ID = status[t].AdminId
            /\ \A a \in DOMAIN users \ {status[t].TenantId} :
                 \A i \in 1..Len(users[a]) : users[a][i].ID # status[t].AdminId

\* A run that replaced a stale account id and recorded the new ids.
C18_Witness ==
    \E t \in tenants :
        /\ pc[t] = "done" /\ result[t] = "ok"
        /\ begun[t].status.TenantId # 0
        /\ status[t].TenantId # begun[t].status.TenantId
        /\ Answered(t, "StatusUpdate", "ok")

\* C19: a run that began with status admin id zero issues no UpdateUser;
\* when its user list was answered and every admin user of the account
\* differs from the spec in username or email, it has returned the
\* admin-not-found error.
C19_NoDriftCorrection ==
    \A t \in tenants :
        (pc[t] # "idle" /\ begun[t].status.AdminId = 0) =>
            /\ ~Issued(t, "UpdateUser")
            /\ (Answered(t, "ListUsers", "ok")
                  /\ \A i \in 1..Len(users[tenantDef[t].ID]) :
                       users[tenantDef[t].ID][i].Role = "admin" =>
                           adminTriggerSync(spec[t], users[tenantDef[t].ID][i])) =>
                 /\ pc[t] = "done"
                 /\ result[t] = AdminNotFound

\* The status names an account found on the remote, no administrator, and
\* the spec's email is not the remote administrator's.
C19_Witness ==
    \E t \in tenants :
        /\ pc[t] = "done"
        /\ begun[t].status.TenantId # 0 /\ begun[t].status.AdminId = 0
        /\ Answered(t, "ListUsers", "ok")
        /\ users[tenantDef[t].ID][1].Email # spec[t].Email
        /\ ~Issued(t, "UpdateUser")
        /\ result[t] = AdminNotFound
====
